---------------------------- MODULE Spec2Model ----------------------------
(***************************************************************************)
(* Telemetry ingestion pipeline: the CRC-16 codec, the packet builder of   *)
(* the simulator, the frame decoder (parser.py) and the health evaluator   *)
(* (health_monitor.py).                                                    *)
(*                                                                         *)
(* A text is a sequence of one-character strings, a byte sequence is a     *)
(* sequence of integers in 0..255.                                         *)
(***************************************************************************)
EXTENDS Integers, Sequences, FiniteSets, TLC

(***************************************************************************)
(* Python's integer operators ^ and & on non-negative integers.            *)
(***************************************************************************)
\* one bit at a time, for the tables below
RECURSIVE XorBits(_, _)
XorBits(a, b) ==
    IF a = 0 THEN b
    ELSE IF b = 0 THEN a
    ELSE (((a % 2) + (b % 2)) % 2) + 2 * XorBits(a \div 2, b \div 2)

RECURSIVE AndBits(_, _)
AndBits(a, b) ==
    IF a = 0 \/ b = 0 THEN 0
    ELSE ((a % 2) * (b % 2)) + 2 * AndBits(a \div 2, b \div 2)

XOR_BYTE == [a \in 0..255 |-> [b \in 0..255 |-> XorBits(a, b)]]
AND_BYTE == [a \in 0..255 |-> [b \in 0..255 |-> AndBits(a, b)]]

\* a ^ b and a & b, eight bits at a time
RECURSIVE BitXor(_, _)
BitXor(a, b) ==
    IF a = 0 THEN b
    ELSE IF b = 0 THEN a
    ELSE XOR_BYTE[a % 256][b % 256] + 256 * BitXor(a \div 256, b \div 256)

RECURSIVE BitAnd(_, _)
BitAnd(a, b) ==
    IF a = 0 \/ b = 0 THEN 0
    ELSE AND_BYTE[a % 256][b % 256] + 256 * BitAnd(a \div 256, b \div 256)

(***************************************************************************)
(* Program constants of parser.py and simulator.py.                        *)
(***************************************************************************)
SYNC_HEADER == 6863              \* 0x1ACF
PACKET_TYPE_HK == 16             \* 0x10
PACKET_TYPE_PAYLOAD == 32        \* 0x20
HEADER_SIZE == 10
CRC_SIZE == 2
HK_PAYLOAD_SIZE == 8
MIN_PACKET_SIZE == HEADER_SIZE + CRC_SIZE
SIM_SYNC_HEADER == 6863          \* simulator.py's own copy
SIM_PACKET_TYPE_HK == 16
CRC_POLY == 32773                \* 0x8005
CRC_TOPBIT == 32768              \* 0x8000
MASK16 == 65535                  \* 0xFFFF

(***************************************************************************)
(* crc16 of parser.py: the register starts at 0, each byte is XORed into   *)
(* the high byte and eight shift steps follow.                             *)
(***************************************************************************)
\* crc16_step testing the top bit after the shift instead of before it
crc16_step_late_test(crc) ==
    IF BitAnd(crc * 2, CRC_TOPBIT) # 0
    THEN BitAnd(BitXor(crc * 2, CRC_POLY), MASK16)
    ELSE BitAnd(crc * 2, MASK16)

crc16_step(crc) ==
    IF BitAnd(crc, CRC_TOPBIT) # 0
    THEN BitAnd(BitXor(crc * 2, CRC_POLY), MASK16)
    ELSE BitAnd(crc * 2, MASK16)

\* for _ in range(8): the register is a number before the next step starts
RECURSIVE crc16_bits(_, _)
crc16_bits(crc, n) ==
    IF n = 0 THEN crc
    ELSE LET nxt == crc16_step(crc)
         IN  IF nxt \in Nat THEN crc16_bits(nxt, n - 1) ELSE nxt

\* for byte in data
RECURSIVE crc16_from(_, _, _)
crc16_from(crc, data, i) ==
    IF i > Len(data) THEN crc
    ELSE LET nxt == crc16_bits(BitXor(crc, data[i] * 256), 8)
         IN  IF nxt \in Nat THEN crc16_from(nxt, data, i + 1) ELSE nxt

crc16(data) == crc16_from(0, data, 1)

(***************************************************************************)
(* simulator.py and test_all.py carry their own copies of crc16.           *)
(***************************************************************************)
RECURSIVE sim_crc16_bits(_, _)
sim_crc16_bits(crc, n) ==
    IF n = 0 THEN crc
    ELSE LET nxt == IF BitAnd(crc, CRC_TOPBIT) # 0
                    THEN BitAnd(BitXor(crc * 2, CRC_POLY), MASK16)
                    ELSE BitAnd(crc * 2, MASK16)
         IN  IF nxt \in Nat THEN sim_crc16_bits(nxt, n - 1) ELSE nxt

RECURSIVE sim_crc16_from(_, _, _)
sim_crc16_from(crc, data, i) ==
    IF i > Len(data) THEN crc
    ELSE LET nxt == sim_crc16_bits(BitXor(crc, data[i] * 256), 8)
         IN  IF nxt \in Nat THEN sim_crc16_from(nxt, data, i + 1) ELSE nxt

\* sim_crc16 starting from a register of 0xFFFF
sim_crc16_preset(data) == sim_crc16_from(MASK16, data, 1)

sim_crc16(data) == sim_crc16_from(0, data, 1)

RECURSIVE test_crc16_bits(_, _)
test_crc16_bits(crc, n) ==
    IF n = 0 THEN crc
    ELSE LET nxt == IF BitAnd(crc, CRC_TOPBIT) # 0
                    THEN BitAnd(BitXor(crc * 2, CRC_POLY), MASK16)
                    ELSE BitAnd(crc * 2, MASK16)
         IN  IF nxt \in Nat THEN test_crc16_bits(nxt, n - 1) ELSE nxt

RECURSIVE test_crc16_from(_, _, _)
test_crc16_from(crc, data, i) ==
    IF i > Len(data) THEN crc
    ELSE LET nxt == test_crc16_bits(BitXor(crc, data[i] * 256), 8)
         IN  IF nxt \in Nat THEN test_crc16_from(nxt, data, i + 1) ELSE nxt

test_crc16(data) == test_crc16_from(0, data, 1)

(***************************************************************************)
(* struct.pack / struct.unpack_from, big-endian, and bytes.hex().          *)
(***************************************************************************)
pack_B(v) == <<v>>
pack_b(v) == <<IF v < 0 THEN v + 256 ELSE v>>
pack_H(v) == <<v \div 256, v % 256>>
\* A 32-bit unsigned value v is held as <<v \div 65536, v % 65536>>: the
\* model checker's integers end at 2^31 - 1.
pack_I(v) == pack_H(v[1]) \o pack_H(v[2])

\* unpack_from raises struct.error unless the buffer holds `size` bytes at
\* `offset`; a negative offset counts from the end.
unpack_offset(data, offset) == IF offset < 0 THEN offset + Len(data) ELSE offset
unpack_fits(data, offset, size) ==
    /\ unpack_offset(data, offset) >= 0
    /\ unpack_offset(data, offset) + size <= Len(data)
unpack_B(data, offset) == data[unpack_offset(data, offset) + 1]
\* unpack_b reading the byte as unsigned (format B for b)
unpack_b_unsigned(data, offset) == data[unpack_offset(data, offset) + 1]

unpack_b(data, offset) ==
    LET v == data[unpack_offset(data, offset) + 1]
    IN  IF v >= 128 THEN v - 256 ELSE v
unpack_H(data, offset) ==
    LET o == unpack_offset(data, offset)
    IN  data[o + 1] * 256 + data[o + 2]
unpack_I(data, offset) ==
    LET o == unpack_offset(data, offset)
    IN  <<data[o + 1] * 256 + data[o + 2], data[o + 3] * 256 + data[o + 4]>>

\* data[start:stop] with Python's clamping of negative and oversized bounds
slice_index(data, k) ==
    IF k < 0 THEN (IF k + Len(data) < 0 THEN 0 ELSE k + Len(data))
    ELSE (IF k > Len(data) THEN Len(data) ELSE k)
slice(data, start, stop) ==
    SubSeq(data, slice_index(data, start) + 1, slice_index(data, stop))

HEX_LOWER == <<"0", "1", "2", "3", "4", "5", "6", "7", "8", "9", "a", "b", "c", "d", "e", "f">>
HEX_UPPER == <<"0", "1", "2", "3", "4", "5", "6", "7", "8", "9", "A", "B", "C", "D", "E", "F">>

bytes_hex(data) ==
    [k \in 1..(2 * Len(data)) |->
        IF k % 2 = 1 THEN HEX_LOWER[(data[(k + 1) \div 2] \div 16) + 1]
        ELSE HEX_LOWER[(data[k \div 2] % 16) + 1]]

(***************************************************************************)
(* build_hk_packet of simulator.py.                                       *)
(***************************************************************************)
build_hk_body(satellite_id, battery_voltage, battery_temp, msi_temperature, ssr_used, timestamp) ==
    LET payload == pack_H(battery_voltage) \o pack_b(battery_temp)
                   \o pack_B(msi_temperature) \o pack_I(ssr_used)
        packet_length == 10 + Len(payload) + 2
        header == pack_H(SIM_SYNC_HEADER) \o pack_B(packet_length)
                  \o pack_B(SIM_PACKET_TYPE_HK) \o pack_H(satellite_id) \o pack_I(timestamp)
    IN  header \o payload

build_hk_packet(satellite_id, battery_voltage, battery_temp, msi_temperature, ssr_used, timestamp) ==
    LET body == build_hk_body(satellite_id, battery_voltage, battery_temp,
                              msi_temperature, ssr_used, timestamp)
        crc == sim_crc16(body)
        full == body \o pack_H(crc)
    IN  bytes_hex(full)

(***************************************************************************)
(* Text handling of parse_packet: str.strip, str.replace, bytes.fromhex.   *)
(***************************************************************************)
WHITESPACE == {" ", "\t", "\n", "\r", "\f"}

RECURSIVE lstrip(_)
lstrip(s) ==
    IF s # <<>> /\ Head(s) \in WHITESPACE THEN lstrip(Tail(s)) ELSE s

RECURSIVE rstrip(_)
rstrip(s) ==
    IF s # <<>> /\ s[Len(s)] \in WHITESPACE THEN rstrip(SubSeq(s, 1, Len(s) - 1)) ELSE s

strip(s) == rstrip(lstrip(s))

\* s.replace(c, "") for a single character c
replace_char(s, c) == SelectSeq(s, LAMBDA x : x # c)

\* s.replace("0x", ""): every non-overlapping occurrence, scanning from the
\* left; the result is not scanned again
RECURSIVE replace_0x(_)
replace_0x(s) ==
    IF Len(s) < 2 THEN s
    ELSE IF s[1] = "0" /\ s[2] = "x" THEN replace_0x(SubSeq(s, 3, Len(s)))
    ELSE <<s[1]>> \o replace_0x(Tail(s))

normalise(hex_string) ==
    replace_char(replace_0x(replace_char(strip(hex_string), " ")), "\n")

IsHexDigit(c) == \E k \in 1..16 : HEX_LOWER[k] = c \/ HEX_UPPER[k] = c
HexDigitValue(c) == (CHOOSE k \in 1..16 : HEX_LOWER[k] = c \/ HEX_UPPER[k] = c) - 1

\* bytes.fromhex: ASCII whitespace is skipped before a pair of digits, every
\* other character that is not a hex digit raises ValueError.
RECURSIVE fromhex_from(_, _, _)
fromhex_from(s, i, acc) ==
    IF i > Len(s) THEN [ok |-> TRUE, data |-> acc]
    ELSE IF s[i] \in WHITESPACE THEN fromhex_from(s, i + 1, acc)
    ELSE IF ~IsHexDigit(s[i]) THEN [ok |-> FALSE, data |-> <<>>]
    ELSE IF i + 1 > Len(s) THEN [ok |-> FALSE, data |-> <<>>]
    ELSE IF ~IsHexDigit(s[i + 1]) THEN [ok |-> FALSE, data |-> <<>>]
    ELSE fromhex_from(s, i + 2,
                      Append(acc, HexDigitValue(s[i]) * 16 + HexDigitValue(s[i + 1])))

fromhex(s) == fromhex_from(s, 1, <<>>)

(***************************************************************************)
(* Outcomes of a call: a returned packet, or a raised exception.  A        *)
(* ParseError carries the failure kind its message names.                  *)
(***************************************************************************)
NoPacket == [packet_type |-> "NONE"]
Return(packet) == [exc |-> "none", kind |-> "", packet |-> packet]
Raise(exc, kind) == [exc |-> exc, kind |-> kind, packet |-> NoPacket]
ParseError(kind) == Raise("ParseError", kind)

(***************************************************************************)
(* _parse_housekeeping and parse_packet of parser.py.                      *)
(***************************************************************************)
\* _parse_housekeeping reading the fields from the end of the payload
_parse_housekeeping_from_end(satellite_id, timestamp, payload, raw_hex) ==
    IF Len(payload) < HK_PAYLOAD_SIZE THEN ParseError("TruncatedPayload")
    ELSE Return([packet_type     |-> "HOUSEKEEPING",
                 satellite_id    |-> satellite_id,
                 timestamp       |-> timestamp,
                 battery_voltage |-> unpack_H(payload, -8),
                 battery_temp    |-> unpack_b(payload, -6),
                 msi_temperature |-> unpack_B(payload, -5),
                 ssr_used        |-> unpack_I(payload, -4),
                 raw_hex         |-> raw_hex])

_parse_housekeeping(satellite_id, timestamp, payload, raw_hex) ==
    IF Len(payload) < HK_PAYLOAD_SIZE THEN ParseError("TruncatedPayload")
    ELSE IF ~unpack_fits(payload, 0, 2) \/ ~unpack_fits(payload, 2, 1)
            \/ ~unpack_fits(payload, 3, 1) \/ ~unpack_fits(payload, 4, 4)
    THEN Raise("struct.error", "")
    ELSE Return([packet_type     |-> "HOUSEKEEPING",
                 satellite_id    |-> satellite_id,
                 timestamp       |-> timestamp,
                 battery_voltage |-> unpack_H(payload, 0),
                 battery_temp    |-> unpack_b(payload, 2),
                 msi_temperature |-> unpack_B(payload, 3),
                 ssr_used        |-> unpack_I(payload, 4),
                 raw_hex         |-> raw_hex])

\* lines 125-146: header fields, payload and dispatch by type
parse_dispatch(data, cleaned) ==
    IF Len(data) < 4 THEN Raise("IndexError", "")
    ELSE IF ~unpack_fits(data, 4, 2) \/ ~unpack_fits(data, 6, 4)
    THEN Raise("struct.error", "")
    ELSE LET packet_type == data[4]
             satellite_id == unpack_H(data, 4)
             timestamp == unpack_I(data, 6)
             payload == slice(data, HEADER_SIZE, -CRC_SIZE)
         IN  IF packet_type = PACKET_TYPE_HK
             THEN _parse_housekeeping(satellite_id, timestamp, payload, cleaned)
             ELSE IF packet_type = PACKET_TYPE_PAYLOAD
             THEN Return([packet_type    |-> "PAYLOAD_DATA",
                          satellite_id   |-> satellite_id,
                          timestamp      |-> timestamp,
                          payload_hex    |-> bytes_hex(payload),
                          payload_length |-> Len(payload),
                          raw_hex        |-> cleaned])
             ELSE ParseError("UnknownType")

\* parse_crc comparing only the low byte of the two CRC values
parse_crc_low_byte(data, cleaned) ==
    IF unpack_H(data, -CRC_SIZE) % 256 # crc16(slice(data, 0, -CRC_SIZE)) % 256
    THEN ParseError("CRCMismatch")
    ELSE parse_dispatch(data, cleaned)

\* parse_crc dispatching on an unassigned type code before it compares the CRC
parse_crc_after_type(data, cleaned) ==
    IF data[4] \notin {PACKET_TYPE_HK, PACKET_TYPE_PAYLOAD} THEN ParseError("UnknownType")
    ELSE IF unpack_H(data, -CRC_SIZE) # crc16(slice(data, 0, -CRC_SIZE))
    THEN ParseError("CRCMismatch")
    ELSE parse_dispatch(data, cleaned)

\* lines 116-123: the CRC check
parse_crc(data, cleaned) ==
    IF ~unpack_fits(data, -CRC_SIZE, 2) THEN Raise("struct.error", "")
    ELSE LET received_crc == unpack_H(data, -CRC_SIZE)
             calculated_crc == crc16(slice(data, 0, -CRC_SIZE))
         IN  IF received_crc # calculated_crc THEN ParseError("CRCMismatch")
             ELSE parse_dispatch(data, cleaned)

\* parse_length testing the minimum before it compares the length byte with
\* the byte count
parse_length_minimum_first(data, cleaned) ==
    IF data[3] < MIN_PACKET_SIZE THEN ParseError("DeclaredLengthBelowMinimum")
    ELSE IF data[3] # Len(data) THEN ParseError("LengthMismatch")
    ELSE parse_crc(data, cleaned)

\* parse_length without the comparison of the length byte with the byte count
parse_length_unchecked(data, cleaned) ==
    IF Len(data) < 3 THEN Raise("IndexError", "")
    ELSE IF data[3] < MIN_PACKET_SIZE THEN ParseError("DeclaredLengthBelowMinimum")
    ELSE parse_crc(data, cleaned)

\* lines 103-114: the length checks
parse_length(data, cleaned) ==
    IF Len(data) < 3 THEN Raise("IndexError", "")
    ELSE LET declared_length == data[3]
         IN  IF declared_length # Len(data) THEN ParseError("LengthMismatch")
             ELSE IF declared_length < MIN_PACKET_SIZE
             THEN ParseError("DeclaredLengthBelowMinimum")
             ELSE parse_crc(data, cleaned)

\* parse_sync without the comparison with SYNC_HEADER
parse_sync_unchecked(data, cleaned) == parse_length(data, cleaned)

\* lines 95-101: the sync header
parse_sync(data, cleaned) ==
    IF ~unpack_fits(data, 0, 2) THEN Raise("struct.error", "")
    ELSE IF unpack_H(data, 0) # SYNC_HEADER THEN ParseError("SyncMismatch")
    ELSE parse_length(data, cleaned)

\* parse_min_length without its check
parse_min_length_absent(data, cleaned) == parse_sync(data, cleaned)

\* lines 88-93: the minimum length
parse_min_length(data, cleaned) ==
    IF Len(data) < MIN_PACKET_SIZE THEN ParseError("TooShort")
    ELSE parse_sync(data, cleaned)

parse_packet(hex_string) ==
    LET cleaned == normalise(hex_string)
    IN  IF cleaned = <<>> THEN ParseError("EmptyInput")
        ELSE IF Len(cleaned) % 2 # 0 THEN ParseError("OddHexLength")
        ELSE LET decoded == fromhex(cleaned)
             IN  IF ~decoded.ok THEN ParseError("InvalidHexChars")
                 ELSE parse_min_length(decoded.data, cleaned)

(***************************************************************************)
(* health_monitor.py: the rule table and check_health.                     *)
(***************************************************************************)
ALERT_RULES ==
    << [level |-> "RED",    field |-> "msi_temperature", op |-> "gt", threshold |-> 40,
        message |-> "MSI Temperature critical: {v} C exceeds the 40 C threshold"],
       [level |-> "YELLOW", field |-> "battery_voltage", op |-> "lt", threshold |-> 12000,
        message |-> "Battery voltage low: {v} mV is below the 12 000 mV threshold"] >>

\* condition with the thresholds included (>= for >, <= for <)
condition_inclusive(rule, v) ==
    IF rule.op = "gt" THEN v >= rule.threshold ELSE v <= rule.threshold

condition(rule, v) ==
    IF rule.op = "gt" THEN v > rule.threshold ELSE v < rule.threshold

\* the rule's f-string, held as the template and the value it formats
message(rule, v) == <<rule.message, v>>

\* the alert dict with the packet's timestamp left out of packet_timestamp
alert_unkeyed(rule, value, packet) ==
    [level            |-> rule.level,
     field            |-> rule.field,
     value            |-> value,
     message          |-> message(rule, value),
     satellite_id     |-> packet.satellite_id,
     timestamp        |-> packet.timestamp,
     packet_timestamp |-> <<0, 0>>]

\* the dict appended for a rule that fired
alert(rule, value, packet) ==
    [level            |-> rule.level,
     field            |-> rule.field,
     value            |-> value,
     message          |-> message(rule, value),
     satellite_id     |-> packet.satellite_id,
     timestamp        |-> packet.timestamp,
     packet_timestamp |-> packet.timestamp]

RECURSIVE check_health_from(_, _, _)
check_health_from(packet, k, alerts) ==
    IF k > Len(ALERT_RULES) THEN alerts
    ELSE LET rule == ALERT_RULES[k]
         IN  IF rule.field \notin DOMAIN packet
             THEN check_health_from(packet, k + 1, alerts)
             ELSE LET value == packet[rule.field]
                  IN  IF condition(rule, value)
                      THEN check_health_from(packet, k + 1,
                               Append(alerts, alert(rule, value, packet)))
                      ELSE check_health_from(packet, k + 1, alerts)

check_health(packet) == check_health_from(packet, 1, <<>>)

(***************************************************************************)
(* Inputs.  Housekeeping frames are the frame of test 1a with one field    *)
(* moved to another sample value, or with both measured fields that carry  *)
(* a threshold moved.  Frames with another type code or payload are built  *)
(* the way tests 1i and 1j build them.                                     *)
(***************************************************************************)
MaxPayloadLen == 9      \* payload bytes of a hand-built frame
MaxTextLen == 3         \* characters of an arbitrary datagram text

FieldNames == {"satellite_id", "timestamp", "battery_voltage", "battery_temp",
               "msi_temperature", "ssr_used"}
Nominal == [satellite_id |-> 1, timestamp |-> <<25939, 61696>>, battery_voltage |-> 13800,
            battery_temp |-> 22, msi_temperature |-> 28, ssr_used |-> <<0, 512>>]
Samples == [satellite_id    : {0, 1, 65535},
            timestamp       : {<<0, 0>>, <<25939, 61696>>, <<65535, 65535>>},
            battery_voltage : {0, 11999, 12000, 13800, 65535},
            battery_temp    : {-128, -15, 22, 127},
            msi_temperature : {0, 28, 40, 41, 255},
            ssr_used        : {<<0, 0>>, <<0, 512>>, <<65535, 65535>>}]
Varied(f) == {n \in FieldNames : f[n] # Nominal[n]}
HkInputs ==
    {f \in Samples : \/ \E n \in FieldNames : Varied(f) \subseteq {n}
                     \/ Varied(f) \subseteq {"msi_temperature", "battery_voltage"}}

RawTypes == {PACKET_TYPE_HK, PACKET_TYPE_PAYLOAD, 255}
RawPayload == <<171, 205, 239, 41, 0, 255, 16, 128, 7, 99, 1, 2>>
ForgedSyncs == {SYNC_HEADER, 57005}
TextAlphabet == {"1", "a", "F", "Z", "0", "x", " ", "\t", "\n"}

RECURSIVE TextsUpTo(_)
TextsUpTo(n) ==
    IF n = 0 THEN {<<>>}
    ELSE LET shorter == TextsUpTo(n - 1)
         IN  shorter \cup {Append(t, c) : t \in {u \in shorter : Len(u) = n - 1},
                                          c \in TextAlphabet}

MaxThreads == 2         \* listener threads start() creates
MaxCalls == 4           \* start() and stop() calls of the caller
MaxDatagrams == 2       \* datagrams the sockets deliver

VARIABLES
    pc,          \* "idle", "ready" (a text is at hand), "parsed", "checked"
    hex_string,  \* the text handed to parse_packet
    origin,      \* how the text was built
    tamper,      \* what was done to the text after it was built
    flip_at,     \* offset of the byte a bit was flipped in, -1 if none
    result,      \* outcome of parse_packet
    alerts       \* what check_health returned

\* udp_service.py: the UDPService object, its listener threads, the sockets
\* they create, and what the caller and the collaborators saw
VARIABLES
    _running,    \* self._running
    _thread,     \* self._thread: the thread of the last start(), 0 for None
    _sock,       \* self._sock: the socket last assigned, 0 for None
    on_packet,   \* whether an observer was given to __init__
    thread_pc,   \* where each listener thread is in _listen_loop
    sockets,     \* state of the socket each thread created
    recv_on,     \* the socket a thread's pending recvfrom was called on
    raw_data,    \* the datagram a thread has received and not yet processed
    bind_result, \* how lines 86-89 ended for each thread
    closed_by,   \* who has called close() on each socket: threads, 0 for stop()
    calls,       \* the start() and stop() calls made, with what they returned
    log          \* the recvfrom returns and collaborator calls, in order

\* database.py: the module's client, the MongoDB server behind it, and the
\* observer the service was given
VARIABLES
    _client,        \* whether database._client has been created
    reachable,      \* whether the MongoDB server answers
    alert_dedup,    \* whether the unique index alert_dedup exists on the server
    telemetry_docs, \* the documents of the telemetry collection, in order
    alert_docs,     \* the documents of the alerts collection, in order
    observer_fails, \* whether a call of the observer raises
    inbound         \* which senders are on the network: "scenarios", "same second"

parser_vars == <<pc, hex_string, origin, tamper, flip_at, result, alerts>>
service_vars == <<_running, _thread, _sock, on_packet, thread_pc, sockets, recv_on,
                  raw_data, bind_result, closed_by, calls, log>>
store_vars == <<_client, reachable, alert_dedup, telemetry_docs, alert_docs, observer_fails,
                inbound>>
vars == <<pc, hex_string, origin, tamper, flip_at, result, alerts,
          _running, _thread, _sock, on_packet, thread_pc, sockets, recv_on,
          raw_data, bind_result, closed_by, calls, log,
          _client, reachable, alert_dedup, telemetry_docs, alert_docs, observer_fails,
          inbound>>

Threads == 1..MaxThreads

\* UDPService.__init__, before any start()
Constructed ==
    /\ _running = FALSE
    /\ _thread = 0
    /\ _sock = 0
    /\ thread_pc = [t \in Threads |-> "unborn"]
    /\ sockets = [t \in Threads |-> "none"]
    /\ recv_on = [t \in Threads |-> 0]
    /\ raw_data = [t \in Threads |-> <<>>]
    /\ bind_result = [t \in Threads |-> "none"]
    /\ closed_by = [t \in Threads |-> {}]
    /\ calls = <<>>
    /\ log = <<>>

\* database.py as imported, with a server that holds no document and no
\* index yet and answers, and an observer that returns
Imported ==
    /\ _client = FALSE
    /\ reachable = TRUE
    /\ alert_dedup = FALSE
    /\ telemetry_docs = <<>>
    /\ alert_docs = <<>>
    /\ observer_fails = FALSE

Pending == [exc |-> "pending", kind |-> "", packet |-> NoPacket]

Init ==
    /\ pc = "idle"
    /\ hex_string = <<>>
    /\ origin = [builder |-> "none"]
    /\ tamper = {}
    /\ flip_at = -1
    /\ result = Pending
    /\ alerts = <<>>
    /\ on_packet = FALSE
    /\ Constructed
    /\ Imported
    /\ inbound = "scenarios"

\* simulator.py: a housekeeping frame is encoded
BuildHk ==
    /\ pc = "idle"
    /\ \E f \in HkInputs :
          /\ hex_string' = build_hk_packet(f.satellite_id, f.battery_voltage, f.battery_temp,
                                           f.msi_temperature, f.ssr_used, f.timestamp)
          /\ origin' = [builder |-> "build_hk_packet", frame |-> f]
    /\ pc' = "ready"
    /\ UNCHANGED <<tamper, flip_at, result, alerts>>
    /\ UNCHANGED service_vars
    /\ UNCHANGED store_vars

\* test_all.py 1i, 1j: a frame with a chosen type code and payload, closed
\* with the parser's crc16
raw_packet(declared, ptype, payload) ==
    LET body == pack_H(SYNC_HEADER) \o pack_B(declared) \o pack_B(ptype)
                \o pack_H(7) \o pack_I(<<25939, 62696>>) \o payload
    IN  bytes_hex(body \o pack_H(crc16(body)))

BuildRaw ==
    /\ pc = "idle"
    /\ \E ptype \in RawTypes, n \in 0..MaxPayloadLen :
          /\ hex_string' = raw_packet(10 + n + 2, ptype, SubSeq(RawPayload, 1, n))
          /\ origin' = [builder |-> "raw", ptype |-> ptype, payload_length |-> n]
    /\ pc' = "ready"
    /\ UNCHANGED <<tamper, flip_at, result, alerts>>
    /\ UNCHANGED service_vars
    /\ UNCHANGED store_vars

\* a frame of any size, sync value and length byte, closed with the CRC that
\* is right for its bytes: one defect at a time reaches the decoder
forged_packet(sync, declared, total) ==
    LET full == pack_H(sync) \o pack_B(declared) \o pack_B(PACKET_TYPE_HK)
                \o pack_H(7) \o pack_I(<<25939, 62696>>) \o RawPayload
        body == SubSeq(full, 1, total - CRC_SIZE)
    IN  bytes_hex(body \o pack_H(crc16(body)))

BuildForged ==
    /\ pc = "idle"
    /\ \E sync \in ForgedSyncs, total \in 5..(MIN_PACKET_SIZE + MaxPayloadLen) :
          \E declared \in {total, total + 1, MIN_PACKET_SIZE - 1, 255} :
             /\ hex_string' = forged_packet(sync, declared, total)
             /\ origin' = [builder |-> "forged", sync |-> sync, declared |-> declared,
                           total |-> total]
    /\ pc' = "ready"
    /\ UNCHANGED <<tamper, flip_at, result, alerts>>
    /\ UNCHANGED service_vars
    /\ UNCHANGED store_vars

\* an arbitrary datagram text
ReceiveText ==
    /\ pc = "idle"
    /\ \E t \in TextsUpTo(MaxTextLen) : hex_string' = t
    /\ origin' = [builder |-> "text"]
    /\ pc' = "ready"
    /\ UNCHANGED <<tamper, flip_at, result, alerts>>
    /\ UNCHANGED service_vars
    /\ UNCHANGED store_vars

\* one bit of an encoded frame is flipped
FlipBit ==
    /\ pc = "ready"
    /\ tamper = {}
    /\ origin.builder \in {"build_hk_packet", "raw"}
    /\ LET data == fromhex(hex_string).data
       IN  \E i \in 0..(Len(data) - 1), b \in 0..7 :
              /\ hex_string' = bytes_hex([data EXCEPT ![i + 1] = BitXor(@, 2 ^ b)])
              /\ flip_at' = i
    /\ tamper' = {"flip"}
    /\ UNCHANGED <<pc, origin, result, alerts>>
    /\ UNCHANGED service_vars
    /\ UNCHANGED store_vars

\* test_all.py 1c: the first four bytes are replaced by DEADBEEF
BadSync ==
    /\ pc = "ready"
    /\ origin.builder # "text"
    /\ tamper \subseteq {"length", "crc"}
    /\ hex_string' = <<"D", "E", "A", "D", "B", "E", "E", "F">> \o SubSeq(hex_string, 9, Len(hex_string))
    /\ tamper' = tamper \cup {"sync"}
    /\ UNCHANGED <<pc, origin, flip_at, result, alerts>>
    /\ UNCHANGED service_vars
    /\ UNCHANGED store_vars

\* test_all.py 1d: the CRC is replaced by 0000
BadCrc ==
    /\ pc = "ready"
    /\ origin.builder # "text"
    /\ tamper \subseteq {"sync", "length"}
    /\ hex_string' = SubSeq(hex_string, 1, Len(hex_string) - 4) \o <<"0", "0", "0", "0">>
    /\ tamper' = tamper \cup {"crc"}
    /\ UNCHANGED <<pc, origin, flip_at, result, alerts>>
    /\ UNCHANGED service_vars
    /\ UNCHANGED store_vars

\* test_all.py 1e: the length byte is set to 0xFF
BadLength ==
    /\ pc = "ready"
    /\ origin.builder # "text"
    /\ tamper \subseteq {"sync", "crc"}
    /\ hex_string' = bytes_hex([fromhex(hex_string).data EXCEPT ![3] = 255])
    /\ tamper' = tamper \cup {"length"}
    /\ UNCHANGED <<pc, origin, flip_at, result, alerts>>
    /\ UNCHANGED service_vars
    /\ UNCHANGED store_vars

\* test_all.py 1f: only the first characters of a frame arrive
Truncate ==
    /\ pc = "ready"
    /\ origin.builder \in {"build_hk_packet", "raw"}
    /\ tamper = {}
    /\ \E n \in 0..(Len(hex_string) - 1) : hex_string' = SubSeq(hex_string, 1, n)
    /\ tamper' = {"truncate"}
    /\ UNCHANGED <<pc, origin, flip_at, result, alerts>>
    /\ UNCHANGED service_vars
    /\ UNCHANGED store_vars

\* test_all.py 1k: " ".join of the byte pairs
RECURSIVE spaced(_)
spaced(text) ==
    IF Len(text) <= 2 THEN text
    ELSE SubSeq(text, 1, 2) \o <<" ">> \o spaced(SubSeq(text, 3, Len(text)))

\* text[:k] + "0x" + text[k:]
with_0x(text, k) == SubSeq(text, 1, k) \o <<"0", "x">> \o SubSeq(text, k + 1, Len(text))

Formats == {"spaced", "0x first", "0x inside", "0x last"}
formatted(text, format) ==
    CASE format = "spaced" -> spaced(text)
      [] format = "0x first" -> with_0x(text, 0)
      [] format = "0x inside" -> with_0x(text, 4)
      [] format = "0x last" -> with_0x(text, Len(text))

\* a sender writes the frame's hex text in another form
Reformat ==
    /\ pc = "ready"
    /\ origin.builder \in {"build_hk_packet", "raw"}
    /\ tamper = {}
    /\ \E format \in Formats :
          /\ hex_string' = formatted(hex_string, format)
          /\ tamper' = {format}
    /\ UNCHANGED <<pc, origin, flip_at, result, alerts>>
    /\ UNCHANGED service_vars
    /\ UNCHANGED store_vars

\* the text is decoded
Parse ==
    /\ pc = "ready"
    /\ result' = parse_packet(hex_string)
    /\ pc' = "parsed"
    /\ UNCHANGED <<hex_string, origin, tamper, flip_at, alerts>>
    /\ UNCHANGED service_vars
    /\ UNCHANGED store_vars

\* udp_service.py _process: a decoded housekeeping packet is evaluated
CheckHealth ==
    /\ pc = "parsed"
    /\ result.exc = "none"
    /\ result.packet.packet_type = "HOUSEKEEPING"
    /\ alerts' = check_health(result.packet)
    /\ pc' = "checked"
    /\ UNCHANGED <<hex_string, origin, tamper, flip_at, result>>
    /\ UNCHANGED service_vars
    /\ UNCHANGED store_vars

Next ==
    \/ BuildHk
    \/ BuildRaw
    \/ BuildForged
    \/ ReceiveText
    \/ FlipBit
    \/ BadSync
    \/ BadCrc
    \/ BadLength
    \/ Truncate
    \/ Reformat
    \/ Parse
    \/ CheckHealth

Spec == Init /\ [][Next]_vars

(***************************************************************************)
(* udp_service.py.  start() and stop() are called by one caller; each      *)
(* start() that finds the flag cleared creates a listener thread running   *)
(* _listen_loop.  A thread reads self._running and self._sock afresh at    *)
(* every use, as the code does.  A socket that is open and bound delivers  *)
(* datagrams or times out; a receive fails with OSError only on a socket   *)
(* that was closed or never bound.                                         *)
(***************************************************************************)
UNDECODABLE == "<byte 0xFF>"      \* a byte that is not valid UTF-8

\* test_all.py 2c, preceded by a byte that decode(errors="ignore") drops
MalformedDatagram ==
    <<UNDECODABLE, "T", "H", "I", "S", "I", "S", "N", "O", "T", "V", "A", "L", "I", "D",
      "H", "E", "X">>

\* simulator.py SCENARIOS "Normal" and "RED+YELLOW", the latter with the
\* line end a sender may add
NominalDatagram ==
    build_hk_packet(Nominal.satellite_id, Nominal.battery_voltage, Nominal.battery_temp,
                    Nominal.msi_temperature, Nominal.ssr_used, Nominal.timestamp)
AlarmDatagram ==
    build_hk_packet(1, 10800, 18, 52, <<0, 4096>>, <<25939, 61697>>) \o <<"\n">>

\* another frame of satellite 1 built in the same second as AlarmDatagram,
\* with other measurements (run_simulation with an interval below 1 s)
SameSecondDatagram ==
    build_hk_packet(1, 11500, 18, 30, <<0, 4096>>, <<25939, 61697>>)

\* a payload-data frame (type 0x20) with three payload bytes
PayloadDatagram == raw_packet(15, PACKET_TYPE_PAYLOAD, SubSeq(RawPayload, 1, 3))

Datagrams == {MalformedDatagram, NominalDatagram, AlarmDatagram, PayloadDatagram}

\* what the senders send: the scenarios above, or one satellite's frames
\* sent faster than one per second
sent ==
    IF inbound = "scenarios" THEN Datagrams
    ELSE {NominalDatagram, AlarmDatagram, SameSecondDatagram}

\* raw_data.decode("utf-8", errors="ignore")
decode(data) == SelectSeq(data, LAMBDA b : b # UNDECODABLE)

\* one entry of the log
Event(op, t, data, packet, alert_list) ==
    [op |-> op, thread |-> t, raw_data |-> data, packet |-> packet, alerts |-> alert_list,
     returned |-> "None"]

\* the alerts stored last first
store_alerts_reversed(t, packet, alert_list) ==
    [k \in 1..Len(alert_list) |->
        Event("store_alert", t, <<>>, packet, <<alert_list[Len(alert_list) + 1 - k]>>)]

\* for alert in alerts: db.store_alert(alert)
store_alerts(t, packet, alert_list) ==
    [k \in 1..Len(alert_list) |-> Event("store_alert", t, <<>>, packet, <<alert_list[k]>>)]

\* the observer call of lines 162-166
notify(t, packet, alert_list) ==
    IF on_packet THEN <<Event("on_packet", t, <<>>, packet, alert_list)>> ELSE <<>>

\* _process notifying the observer of a text the decoder rejected
_process_notifying_rejected(t, hex_str) ==
    LET parsed == parse_packet(hex_str)
        packet == parsed.packet
        decoded == <<Event("parse_packet", t, hex_str, packet, <<>>)>>
    IN  IF parsed.exc # "none" THEN decoded \o notify(t, packet, <<>>)
        ELSE IF packet.packet_type = "HOUSEKEEPING"
        THEN LET alert_list == check_health(packet)
             IN  decoded
                 \o <<Event("store_telemetry", t, <<>>, packet, <<>>),
                      Event("check_health", t, <<>>, packet, alert_list)>>
                 \o store_alerts(t, packet, alert_list)
                 \o notify(t, packet, alert_list)
        ELSE decoded \o notify(t, packet, <<>>)

\* _process storing every decoded packet, whatever its type
_process_storing_all(t, hex_str) ==
    LET parsed == parse_packet(hex_str)
        packet == parsed.packet
        decoded == <<Event("parse_packet", t, hex_str, packet, <<>>)>>
    IN  IF parsed.exc # "none" THEN decoded
        ELSE LET alert_list == check_health(packet)
             IN  decoded
                 \o <<Event("store_telemetry", t, <<>>, packet, <<>>),
                      Event("check_health", t, <<>>, packet, alert_list)>>
                 \o store_alerts(t, packet, alert_list)
                 \o notify(t, packet, alert_list)

\* _process: the call of parse_packet with what it returned (NoPacket when it
\* raised), and the collaborator calls made for the text, in order
_process(t, hex_str) ==
    LET parsed == parse_packet(hex_str)
        packet == parsed.packet
        decoded == <<Event("parse_packet", t, hex_str, packet, <<>>)>>
    IN  IF parsed.exc # "none" THEN decoded
        ELSE IF packet.packet_type = "HOUSEKEEPING"
        THEN LET alert_list == check_health(packet)
             IN  decoded
                 \o <<Event("store_telemetry", t, <<>>, packet, <<>>),
                      Event("check_health", t, <<>>, packet, alert_list)>>
                 \o store_alerts(t, packet, alert_list)
                 \o notify(t, packet, alert_list)
        ELSE decoded \o notify(t, packet, <<>>)

(***************************************************************************)
(* database.py.  A database value is the module's state together with the  *)
(* server's: db.client, db.dedup, db.up, db.telemetry, db.alerts.  Every    *)
(* operation on an unreachable server raises, and the functions below      *)
(* catch it as the code does.                                              *)
(***************************************************************************)
Database ==
    [client |-> _client, up |-> reachable, dedup |-> alert_dedup,
     telemetry |-> telemetry_docs, alerts |-> alert_docs]

\* _create_indexes: create_index raises when the server does not answer,
\* and the exception is logged and dropped
_create_indexes(db) == [db EXCEPT !.dedup = db.dedup \/ db.up]

\* get_db: the client and the indexes are created on the first call only
get_db(db) ==
    IF db.client THEN db ELSE _create_indexes([db EXCEPT !.client = TRUE])

\* store_telemetry: the id of the inserted document, or None
store_telemetry(db, packet) ==
    LET d == get_db(db)
    IN  IF d.up
        THEN [db |-> [d EXCEPT !.telemetry = Append(@, packet)], returned |-> "id"]
        ELSE [db |-> d, returned |-> "None"]

\* the unique index on (satellite_id, field, packet_timestamp)
DuplicateKey(db, doc) ==
    /\ db.dedup
    /\ \E k \in DOMAIN db.alerts :
          /\ db.alerts[k].satellite_id = doc.satellite_id
          /\ db.alerts[k].field = doc.field
          /\ db.alerts[k].packet_timestamp = doc.packet_timestamp

\* store_alert: True when inserted, False on DuplicateKeyError and on any
\* other exception
store_alert(db, doc) ==
    LET d == get_db(db)
    IN  IF ~d.up THEN [db |-> d, returned |-> "False"]
        ELSE IF DuplicateKey(d, doc) THEN [db |-> d, returned |-> "False"]
        ELSE [db |-> [d EXCEPT !.alerts = Append(@, doc)], returned |-> "True"]

\* the calls of _process carried out one after the other on the database:
\* each call with what it returned ("raised" for an observer that raised),
\* and the database after the last one
RECURSIVE execute(_, _, _)
execute(db, todo, done) ==
    IF todo = <<>> THEN [db |-> db, events |-> done]
    ELSE LET e == Head(todo)
         IN  IF e.op = "store_telemetry"
             THEN LET r == store_telemetry(db, e.packet)
                  IN  execute(r.db, Tail(todo), Append(done, [e EXCEPT !.returned = r.returned]))
             ELSE IF e.op = "store_alert"
             THEN LET r == store_alert(db, e.alerts[1])
                  IN  execute(r.db, Tail(todo), Append(done, [e EXCEPT !.returned = r.returned]))
             ELSE IF e.op = "on_packet" /\ observer_fails
             THEN execute(db, Tail(todo), Append(done, [e EXCEPT !.returned = "raised"]))
             ELSE execute(db, Tail(todo), Append(done, e))

\* the server and the module after the calls
written(db) ==
    /\ _client' = db.client
    /\ alert_dedup' = db.dedup
    /\ telemetry_docs' = db.telemetry
    /\ alert_docs' = db.alerts

Call(op, created) == [op |-> op, created |-> created, returned |-> "None"]

\* the number of listener threads created so far
Born == Cardinality({t \in Threads : thread_pc[t] # "unborn"})

\* sock.close() on the socket held in self._sock, by thread `who`, or by
\* stop() when `who` is 0
close(who) ==
    /\ sockets' = [sockets EXCEPT ![_sock] = "closed"]
    /\ closed_by' = [closed_by EXCEPT ![_sock] = @ \cup {who}]

\* A socket object is referenced by self._sock and by each recvfrom call
\* pending on it.  When the last reference goes while the socket is still
\* open, the interpreter finalizes the object, which closes it; -1 in
\* closed_by stands for the finalizer.
Unreferenced(s, socks, sock_ref, pcs) ==
    /\ socks[s] \in {"open", "bound"}
    /\ sock_ref # s
    /\ \A t \in Threads : ~(pcs[t] = "recvfrom" /\ recv_on[t] = s)

finalize(socks, sock_ref, pcs) ==
    /\ sockets' = [s \in Threads |->
                     IF Unreferenced(s, socks, sock_ref, pcs) THEN "closed" ELSE socks[s]]
    /\ closed_by' = [s \in Threads |->
                       IF Unreferenced(s, socks, sock_ref, pcs)
                       THEN closed_by[s] \cup {-1} ELSE closed_by[s]]

\* start() without the test of the flag
start_unguarded ==
    /\ Len(calls) < MaxCalls
    /\ Born < MaxThreads
    /\ _running' = TRUE
    /\ _thread' = Born + 1
    /\ thread_pc' = [thread_pc EXCEPT ![Born + 1] = "socket"]
    /\ calls' = Append(calls, Call("start", Born + 1))
    /\ UNCHANGED <<_sock, on_packet, sockets, recv_on, raw_data, bind_result, closed_by, log>>
    /\ UNCHANGED parser_vars
    /\ UNCHANGED store_vars

\* start(): returns at once when the flag is set, else sets it and starts
\* a new listener thread
start ==
    /\ Len(calls) < MaxCalls
    /\ \/ /\ _running
          /\ calls' = Append(calls, Call("start", 0))
          /\ UNCHANGED <<_running, _thread, thread_pc>>
       \/ /\ ~_running
          /\ Born < MaxThreads
          /\ _running' = TRUE
          /\ _thread' = Born + 1
          /\ thread_pc' = [thread_pc EXCEPT ![Born + 1] = "socket"]
          /\ calls' = Append(calls, Call("start", Born + 1))
    /\ UNCHANGED <<_sock, on_packet, sockets, recv_on, raw_data, bind_result, closed_by, log>>
    /\ UNCHANGED parser_vars
    /\ UNCHANGED store_vars

\* stop(): clears the flag and closes the socket in self._sock, if any
stop ==
    /\ Len(calls) < MaxCalls
    /\ _running' = FALSE
    /\ \/ /\ _sock # 0
          /\ close(0)
       \/ /\ _sock = 0
          /\ UNCHANGED <<sockets, closed_by>>
    /\ calls' = Append(calls, Call("stop", 0))
    /\ UNCHANGED <<_thread, _sock, on_packet, thread_pc, recv_on, raw_data, bind_result, log>>
    /\ UNCHANGED parser_vars
    /\ UNCHANGED store_vars

\* line 86: the thread creates a socket and assigns it to self._sock; the
\* socket that was there loses that reference
CreateSocket(t) ==
    /\ thread_pc[t] = "socket"
    /\ _sock' = t
    /\ finalize([sockets EXCEPT ![t] = "open"], t, thread_pc)
    /\ thread_pc' = [thread_pc EXCEPT ![t] = "bind"]
    /\ UNCHANGED <<_running, _thread, on_packet, recv_on, raw_data, bind_result, calls, log>>
    /\ UNCHANGED parser_vars
    /\ UNCHANGED store_vars

\* lines 87-89 on self._sock succeed: only on a socket that is open and
\* not yet bound
BindOk(t) ==
    /\ thread_pc[t] = "bind"
    /\ sockets[_sock] = "open"
    /\ sockets' = [sockets EXCEPT ![_sock] = "bound"]
    /\ bind_result' = [bind_result EXCEPT ![t] = "ok"]
    /\ thread_pc' = [thread_pc EXCEPT ![t] = "while"]
    /\ UNCHANGED <<_running, _thread, _sock, on_packet, recv_on, raw_data, closed_by,
                   calls, log>>
    /\ UNCHANGED parser_vars
    /\ UNCHANGED store_vars

\* the except clause without line 92: the flag stays set
BindFails_keeping_flag(t) ==
    /\ thread_pc[t] = "bind"
    /\ bind_result' = [bind_result EXCEPT ![t] = "OSError"]
    /\ thread_pc' = [thread_pc EXCEPT ![t] = "done"]
    /\ UNCHANGED <<_running, _thread, _sock, on_packet, sockets, recv_on, raw_data,
                   closed_by, calls, log>>
    /\ UNCHANGED parser_vars
    /\ UNCHANGED store_vars

\* lines 87-93: OSError (the port is taken, or the socket in self._sock was
\* closed or bound meanwhile); the flag is cleared and the thread returns
BindFails(t) ==
    /\ thread_pc[t] = "bind"
    /\ _running' = FALSE
    /\ bind_result' = [bind_result EXCEPT ![t] = "OSError"]
    /\ thread_pc' = [thread_pc EXCEPT ![t] = "done"]
    /\ UNCHANGED <<_thread, _sock, on_packet, sockets, recv_on, raw_data, closed_by,
                   calls, log>>
    /\ UNCHANGED parser_vars
    /\ UNCHANGED store_vars

\* the loop as `while True`: recvfrom is called whatever the flag says
TestRunning_ignoring_flag(t) ==
    /\ thread_pc[t] = "while"
    /\ \/ /\ sockets[_sock] # "closed"
          /\ thread_pc' = [thread_pc EXCEPT ![t] = "recvfrom"]
          /\ recv_on' = [recv_on EXCEPT ![t] = _sock]
       \/ /\ sockets[_sock] = "closed"
          /\ thread_pc' = [thread_pc EXCEPT ![t] = "cleanup"]
          /\ UNCHANGED recv_on
    /\ UNCHANGED <<_running, _thread, _sock, on_packet, sockets, raw_data, bind_result,
                   closed_by, calls, log>>
    /\ UNCHANGED parser_vars
    /\ UNCHANGED store_vars

\* lines 97-99: the flag is tested; when set, recvfrom is called on the
\* socket in self._sock and fails at once if that socket is closed
TestRunning(t) ==
    /\ thread_pc[t] = "while"
    /\ \/ /\ _running
          /\ sockets[_sock] # "closed"
          /\ thread_pc' = [thread_pc EXCEPT ![t] = "recvfrom"]
          /\ recv_on' = [recv_on EXCEPT ![t] = _sock]
       \/ /\ _running
          /\ sockets[_sock] = "closed"
          /\ thread_pc' = [thread_pc EXCEPT ![t] = "cleanup"]
          /\ UNCHANGED recv_on
       \/ /\ ~_running
          /\ thread_pc' = [thread_pc EXCEPT ![t] = "cleanup"]
          /\ UNCHANGED recv_on
    /\ UNCHANGED <<_running, _thread, _sock, on_packet, sockets, raw_data, bind_result,
                   closed_by, calls, log>>
    /\ UNCHANGED parser_vars
    /\ UNCHANGED store_vars

Delivered == Cardinality({k \in DOMAIN log : log[k].op = "recvfrom"})

\* line 99 returns a datagram
Receive(t) ==
    /\ thread_pc[t] = "recvfrom"
    /\ sockets[recv_on[t]] = "bound"
    /\ Delivered < MaxDatagrams
    /\ \E data \in sent :
          /\ raw_data' = [raw_data EXCEPT ![t] = data]
          /\ log' = Append(log, Event("recvfrom", t, data, NoPacket, <<>>))
    /\ thread_pc' = [thread_pc EXCEPT ![t] = "process"]
    /\ finalize(sockets, _sock, thread_pc')
    /\ UNCHANGED <<_running, _thread, _sock, on_packet, recv_on, bind_result, calls>>
    /\ UNCHANGED parser_vars
    /\ UNCHANGED store_vars

\* lines 100-101: socket.timeout
Timeout(t) ==
    /\ thread_pc[t] = "recvfrom"
    /\ thread_pc' = [thread_pc EXCEPT ![t] = "while"]
    /\ finalize(sockets, _sock, thread_pc')
    /\ UNCHANGED <<_running, _thread, _sock, on_packet, recv_on, raw_data, bind_result,
                   calls, log>>
    /\ UNCHANGED parser_vars
    /\ UNCHANGED store_vars

\* lines 102-103: OSError from a pending recvfrom
ReceiveFails(t) ==
    /\ thread_pc[t] = "recvfrom"
    /\ sockets[recv_on[t]] # "bound"
    /\ thread_pc' = [thread_pc EXCEPT ![t] = "cleanup"]
    /\ finalize(sockets, _sock, thread_pc')
    /\ UNCHANGED <<_running, _thread, _sock, on_packet, recv_on, raw_data, bind_result,
                   calls, log>>
    /\ UNCHANGED parser_vars
    /\ UNCHANGED store_vars

\* Process with lines 163-166 without the try: an observer that raises
\* ends the thread
Process_observer_uncaught(t) ==
    /\ thread_pc[t] = "process"
    /\ \E outcome \in {execute(Database, _process(t, strip(decode(raw_data[t]))), <<>>)} :
          /\ log' = log \o outcome.events
          /\ written(outcome.db)
          /\ thread_pc' = [thread_pc EXCEPT ![t] =
                 IF \E k \in DOMAIN outcome.events : outcome.events[k].returned = "raised"
                 THEN "done" ELSE "while"]
    /\ raw_data' = [raw_data EXCEPT ![t] = <<>>]
    /\ UNCHANGED <<_running, _thread, _sock, on_packet, sockets, recv_on, bind_result,
                   closed_by, calls>>
    /\ UNCHANGED <<reachable, observer_fails, inbound>>
    /\ UNCHANGED parser_vars

\* Process giving up on a frame at the first store call that reports
\* failure
Process_until_failure(t) ==
    /\ thread_pc[t] = "process"
    /\ \E outcome \in {execute(Database, _process(t, strip(decode(raw_data[t]))), <<>>)} :
          LET failed == {k \in DOMAIN outcome.events : outcome.events[k].returned = "False"}
              first == IF failed = {} THEN Len(outcome.events)
                       ELSE CHOOSE k \in failed : \A j \in failed : k <= j
          IN  /\ log' = log \o SubSeq(outcome.events, 1, first)
              /\ written(outcome.db)
    /\ raw_data' = [raw_data EXCEPT ![t] = <<>>]
    /\ thread_pc' = [thread_pc EXCEPT ![t] = "while"]
    /\ UNCHANGED <<_running, _thread, _sock, on_packet, sockets, recv_on, bind_result,
                   closed_by, calls>>
    /\ UNCHANGED <<reachable, observer_fails, inbound>>
    /\ UNCHANGED parser_vars

\* lines 109-113: the datagram is decoded, trimmed and processed; every
\* exception of a collaborator is caught inside the call (database.py) or
\* around it (lines 163-166), so the thread goes back to the loop test
Process(t) ==
    /\ thread_pc[t] = "process"
    /\ \E outcome \in {execute(Database, _process(t, strip(decode(raw_data[t]))), <<>>)} :
          /\ log' = log \o outcome.events
          /\ written(outcome.db)
    /\ raw_data' = [raw_data EXCEPT ![t] = <<>>]
    /\ thread_pc' = [thread_pc EXCEPT ![t] = "while"]
    /\ UNCHANGED <<_running, _thread, _sock, on_packet, sockets, recv_on, bind_result,
                   closed_by, calls>>
    /\ UNCHANGED <<reachable, observer_fails, inbound>>
    /\ UNCHANGED parser_vars

\* lines 116-119: the thread closes the socket in self._sock and ends
CleanUp(t) ==
    /\ thread_pc[t] = "cleanup"
    /\ close(t)
    /\ thread_pc' = [thread_pc EXCEPT ![t] = "done"]
    /\ UNCHANGED <<_running, _thread, _sock, on_packet, recv_on, raw_data, bind_result,
                   calls, log>>
    /\ UNCHANGED parser_vars
    /\ UNCHANGED store_vars

_listen_loop(t) ==
    \/ CreateSocket(t)
    \/ BindOk(t)
    \/ BindFails(t)
    \/ TestRunning(t)
    \/ Receive(t)
    \/ Timeout(t)
    \/ ReceiveFails(t)
    \/ Process(t)
    \/ CleanUp(t)

ServiceInit ==
    /\ pc = "idle"
    /\ hex_string = <<>>
    /\ origin = [builder |-> "none"]
    /\ tamper = {}
    /\ flip_at = -1
    /\ result = Pending
    /\ alerts = <<>>
    /\ on_packet \in BOOLEAN
    /\ Constructed
    /\ Imported
    /\ inbound = "scenarios"

ServiceNext ==
    \/ start
    \/ stop
    \/ \E t \in Threads : CreateSocket(t)
    \/ \E t \in Threads : BindOk(t)
    \/ \E t \in Threads : BindFails(t)
    \/ \E t \in Threads : TestRunning(t)
    \/ \E t \in Threads : Receive(t)
    \/ \E t \in Threads : Timeout(t)
    \/ \E t \in Threads : ReceiveFails(t)
    \/ \E t \in Threads : Process(t)
    \/ \E t \in Threads : CleanUp(t)

ServiceSpec == ServiceInit /\ [][ServiceNext]_vars

\* A started thread gets scheduled, and a pending recvfrom ends:
\* settimeout(1.0) bounds the wait.  Nothing is assumed about datagrams
\* arriving or about the bind.  Processed(t) is the step Process(t) takes,
\* whatever it adds to the log.
Processed(t) ==
    /\ thread_pc[t] = "process"
    /\ thread_pc' = [thread_pc EXCEPT ![t] = "while"]
    /\ raw_data' = [raw_data EXCEPT ![t] = <<>>]
    /\ (log' = log \/ Len(log') > Len(log))
    /\ _client' \in BOOLEAN
    /\ alert_dedup' \in BOOLEAN
    /\ (telemetry_docs' = telemetry_docs \/ Len(telemetry_docs') > Len(telemetry_docs))
    /\ (alert_docs' = alert_docs \/ Len(alert_docs') > Len(alert_docs))
    /\ UNCHANGED <<_running, _thread, _sock, on_packet, sockets, recv_on, bind_result,
                   closed_by, calls>>
    /\ UNCHANGED <<reachable, observer_fails, inbound>>
    /\ UNCHANGED parser_vars
Scheduled(t) ==
    TestRunning(t) \/ Timeout(t) \/ ReceiveFails(t) \/ Processed(t) \/ CleanUp(t)
ServiceFairSpec == ServiceSpec /\ \A t \in Threads : WF_vars(Scheduled(t))

(***************************************************************************)
(* One listener with its collaborators failing: the MongoDB server stops   *)
(* and starts answering, the observer starts and stops raising, and the    *)
(* API process calls ping_db (api.py, /health/db), all at any time.  stop() *)
(* is not called here.                                                     *)
(***************************************************************************)
Outage ==
    /\ reachable
    /\ reachable' = FALSE
    /\ UNCHANGED <<_client, alert_dedup, telemetry_docs, alert_docs, observer_fails, inbound>>
    /\ UNCHANGED service_vars
    /\ UNCHANGED parser_vars

Recovery ==
    /\ ~reachable
    /\ reachable' = TRUE
    /\ UNCHANGED <<_client, alert_dedup, telemetry_docs, alert_docs, observer_fails, inbound>>
    /\ UNCHANGED service_vars
    /\ UNCHANGED parser_vars

ObserverChanges ==
    /\ on_packet
    /\ observer_fails' = ~observer_fails
    /\ UNCHANGED <<_client, reachable, alert_dedup, telemetry_docs, alert_docs, inbound>>
    /\ UNCHANGED service_vars
    /\ UNCHANGED parser_vars

\* ping_db: get_db() creates the client and the indexes if that has not
\* been done; the ping itself changes nothing
ping_db ==
    /\ ~_client
    /\ written(get_db(Database))
    /\ UNCHANGED <<reachable, observer_fails, inbound>>
    /\ UNCHANGED service_vars
    /\ UNCHANGED parser_vars

FaultInit ==
    /\ pc = "idle"
    /\ hex_string = <<>>
    /\ origin = [builder |-> "none"]
    /\ tamper = {}
    /\ flip_at = -1
    /\ result = Pending
    /\ alerts = <<>>
    /\ on_packet \in BOOLEAN
    /\ Constructed
    /\ Imported
    /\ inbound = "same second"

FaultNext ==
    \/ start
    \/ \E t \in Threads : CreateSocket(t)
    \/ \E t \in Threads : BindOk(t)
    \/ \E t \in Threads : TestRunning(t)
    \/ \E t \in Threads : Receive(t)
    \/ \E t \in Threads : Timeout(t)
    \/ \E t \in Threads : Process(t)
    \/ Outage
    \/ Recovery
    \/ ObserverChanges
    \/ ping_db

FaultSpec == FaultInit /\ [][FaultNext]_vars

(***************************************************************************)
(* Properties.                                                             *)
(***************************************************************************)
Parsed == pc \in {"parsed", "checked"}
Decoded == fromhex(normalise(hex_string))
FailureKinds == {"EmptyInput", "OddHexLength", "InvalidHexChars", "TooShort", "SyncMismatch",
                 "LengthMismatch", "DeclaredLengthBelowMinimum", "CRCMismatch",
                 "TruncatedPayload", "UnknownType"}

\* the text as the encoder produced it, before anything was done to it
BaseText ==
    IF origin.builder = "build_hk_packet"
    THEN build_hk_packet(origin.frame.satellite_id, origin.frame.battery_voltage,
                         origin.frame.battery_temp, origin.frame.msi_temperature,
                         origin.frame.ssr_used, origin.frame.timestamp)
    ELSE IF origin.builder = "raw"
    THEN raw_packet(10 + origin.payload_length + 2, origin.ptype,
                    SubSeq(RawPayload, 1, origin.payload_length))
    ELSE IF origin.builder = "forged"
    THEN forged_packet(origin.sync, origin.declared, origin.total)
    ELSE <<>>
BaseValid == parse_packet(BaseText).exc = "none"

\* C1: parse_packet returns a frame only if the decoded bytes number at least
\* 12, begin with 0x1ACF, carry their own count at offset 2 and end with the
\* crc16 of all bytes before the last two; an input failing any of these
\* yields no frame.
C1_FrameOnlyIfValidated ==
    (Parsed /\ result.exc = "none") =>
        LET decoded == Decoded
            data == decoded.data
        IN  /\ decoded.ok
            /\ Len(data) >= 12
            /\ data[1] * 256 + data[2] = 6863
            /\ data[3] = Len(data)
            /\ data[Len(data) - 1] * 256 + data[Len(data)]
                  = crc16(SubSeq(data, 1, Len(data) - 2))

\* a frame was returned for a hand-built payload-data frame
C1_Witness ==
    /\ Parsed
    /\ result.exc = "none"
    /\ result.packet.packet_type = "PAYLOAD_DATA"

\* C2: for every input text parse_packet returns a frame or raises
\* ParseError; no struct.error, IndexError or ValueError leaves it.
C2_OnlyParseErrorEscapes ==
    Parsed => result.exc \in {"none", "ParseError"}

\* a decodable text of fewer than three bytes, where data[2] does not exist,
\* was rejected with ParseError
C2_Witness ==
    /\ Parsed
    /\ Decoded.ok
    /\ Len(Decoded.data) \in 1..2
    /\ result = ParseError("TooShort")

\* C3: the checks run in a fixed order and the first one that fails is the
\* one reported; wrong sync and wrong CRC together are a SyncMismatch, an
\* unassigned type code and a wrong CRC together are a CRCMismatch.
CheckOrder == <<"EmptyInput", "OddHexLength", "InvalidHexChars", "TooShort", "SyncMismatch",
                "LengthMismatch", "DeclaredLengthBelowMinimum", "CRCMismatch", "TypeCode">>
WrongSync(data) == <<data[1], data[2]>> # <<26, 207>>
WrongCrc(data) ==
    data[Len(data) - 1] * 256 + data[Len(data)] # crc16(SubSeq(data, 1, Len(data) - 2))
\* whether the check named `check` rejects the cleaned text, given that the
\* ones before it in CheckOrder did not
Fails(check, cleaned, decoded) ==
    CASE check = "EmptyInput" -> Len(cleaned) = 0
      [] check = "OddHexLength" -> Len(cleaned) % 2 = 1
      [] check = "InvalidHexChars" -> ~decoded.ok
      [] check = "TooShort" -> Len(decoded.data) < 12
      [] check = "SyncMismatch" -> WrongSync(decoded.data)
      [] check = "LengthMismatch" -> decoded.data[3] # Len(decoded.data)
      [] check = "DeclaredLengthBelowMinimum" -> decoded.data[3] < 12
      [] check = "CRCMismatch" -> WrongCrc(decoded.data)
      [] check = "TypeCode" ->
            \/ decoded.data[4] \notin {16, 32}
            \/ decoded.data[4] = 16 /\ Len(decoded.data) - 12 < 8
RECURSIVE FirstFailureFrom(_, _, _)
FirstFailureFrom(k, cleaned, decoded) ==
    IF k > Len(CheckOrder) THEN "none"
    ELSE IF Fails(CheckOrder[k], cleaned, decoded) THEN CheckOrder[k]
    ELSE FirstFailureFrom(k + 1, cleaned, decoded)
FirstFailure(text) ==
    LET cleaned == normalise(text)
        decoded == fromhex(cleaned)
    IN  FirstFailureFrom(1, cleaned, decoded)
KindOfTypeCode(text) ==
    IF fromhex(normalise(text)).data[4] = 16 THEN "TruncatedPayload" ELSE "UnknownType"

C3_FirstFailingCheckReported ==
    Parsed =>
        LET first == FirstFailure(hex_string)
            decoded == Decoded
            data == decoded.data
            checked == decoded.ok /\ Len(data) >= 12
            wrong_crc == WrongCrc(data)
        IN  /\ (first = "none") <=> (result.exc = "none")
            /\ (first \notin {"none", "TypeCode"}) => result = ParseError(first)
            /\ (first = "TypeCode") => result = ParseError(KindOfTypeCode(hex_string))
            /\ (result.exc # "none") => (result.exc = "ParseError" /\ result.kind \in FailureKinds)
            /\ (checked /\ WrongSync(data) /\ wrong_crc) => result.kind = "SyncMismatch"
            /\ (checked /\ ~WrongSync(data) /\ data[3] = Len(data)
                  /\ data[4] \notin {16, 32} /\ wrong_crc) => result.kind = "CRCMismatch"

\* a frame with an unassigned type code and a wrong CRC was rejected as a
\* CRC mismatch
C3_Witness ==
    /\ Parsed
    /\ origin.builder = "raw"
    /\ origin.ptype = 255
    /\ tamper = {"crc"}
    /\ WrongCrc(Decoded.data)
    /\ result = ParseError("CRCMismatch")

\* C4: for every housekeeping frame with fields in range,
\* parse_packet(build_hk_packet(...)) succeeds, has packet_type HOUSEKEEPING
\* and reproduces every field.
InRange(f) ==
    /\ f.satellite_id \in 0..65535
    /\ f.timestamp \in (0..65535) \X (0..65535)
    /\ f.battery_voltage \in 0..65535
    /\ f.battery_temp \in -128..127
    /\ f.msi_temperature \in 0..255
    /\ f.ssr_used \in (0..65535) \X (0..65535)
C4_RoundTrip ==
    (Parsed /\ origin.builder = "build_hk_packet" /\ tamper = {} /\ InRange(origin.frame)) =>
        /\ result.exc = "none"
        /\ result.packet.packet_type = "HOUSEKEEPING"
        /\ \A n \in FieldNames : result.packet[n] = origin.frame[n]

\* a frame with a negative battery temperature went through encoder and
\* decoder
C4_Witness ==
    /\ Parsed
    /\ origin.builder = "build_hk_packet"
    /\ tamper = {}
    /\ origin.frame.battery_temp = -128
    /\ result.exc = "none"
    /\ result.packet.battery_temp = -128

\* C5: a valid encoded frame with any one bit flipped is never decoded:
\* parse_packet rejects it.
C5_SingleBitFlipRejected ==
    (Parsed /\ tamper = {"flip"}) =>
        \/ result.exc = "ParseError" /\ result.packet = NoPacket
        \/ ~BaseValid

\* a bit of the payload of a valid housekeeping frame was flipped and the
\* frame was rejected
C5_Witness ==
    /\ Parsed
    /\ tamper = {"flip"}
    /\ origin.builder = "build_hk_packet"
    /\ flip_at = 13
    /\ BaseValid
    /\ result.exc = "ParseError"

\* C6 as stated: every single-bit flip of a valid frame is reported as
\* LengthMismatch or CRCMismatch and as no other kind.
C6_OnlyLengthOrCrc ==
    (Parsed /\ tamper = {"flip"}) =>
        \/ result.kind \in {"LengthMismatch", "CRCMismatch"}
        \/ ~BaseValid

\* C6, amended: a single-bit flip of a valid frame is reported as
\* SyncMismatch when the bit lies in the two sync bytes, as LengthMismatch
\* when it lies in the length byte, and as CRCMismatch anywhere else.
C6_KindByFlipPosition ==
    (Parsed /\ tamper = {"flip"}) =>
        \/ /\ result.exc = "ParseError"
           /\ flip_at \in {0, 1} => result.kind = "SyncMismatch"
           /\ flip_at = 2 => result.kind = "LengthMismatch"
           /\ flip_at > 2 => result.kind = "CRCMismatch"
        \/ ~BaseValid

\* a bit of the first sync byte of a valid frame was flipped
C6_Witness ==
    /\ Parsed
    /\ tamper = {"flip"}
    /\ BaseValid
    /\ flip_at = 0
    /\ result = ParseError("SyncMismatch")

\* C7: crc16 is the CRC-16 with polynomial 0x8005, register 0 at the start,
\* most significant bit first, nothing reflected and no final XOR, which is
\* the remainder of message * x^16 divided by x^16 + x^15 + x^2 + 1 over
\* GF(2); its value lies in 0..0xFFFF and crc16 of no bytes is 0.
\* A polynomial is the set of the exponents of its terms.
TimesXPlus(rem, bit) == {e + 1 : e \in rem} \cup (IF bit = 1 THEN {0} ELSE {})
PolyAdd(p, q) == (p \ q) \cup (q \ p)
Reduce(p) == IF 16 \in p THEN PolyAdd(p, {16, 15, 2, 0}) ELSE p
\* the bits of one byte enter the division, the most significant first
RECURSIVE DivideBits(_, _, _)
DivideBits(rem, byte, j) ==
    IF j < 0 THEN rem
    ELSE LET nxt == Reduce(TimesXPlus(rem, (byte \div (2 ^ j)) % 2))
         IN  IF nxt \subseteq 0..15 THEN DivideBits(nxt, byte, j - 1) ELSE nxt
RECURSIVE DivideBytes(_, _, _)
DivideBytes(rem, data, i) ==
    IF i > Len(data) THEN rem
    ELSE LET nxt == DivideBits(rem, data[i], 7)
         IN  IF nxt \subseteq 0..15 THEN DivideBytes(nxt, data, i + 1) ELSE nxt
\* message * x^16: sixteen zero bits follow the message
Remainder(data) == DivideBytes({}, data \o <<0, 0>>, 1)
PolyValue(p) ==
    LET sum[e \in -1..15] == IF e = -1 THEN 0 ELSE sum[e - 1] + (IF e \in p THEN 2 ^ e ELSE 0)
    IN  sum[15]
RefCrc(data) == PolyValue(Remainder(data))

C7_Crc16IsReference ==
    (pc = "ready" /\ Decoded.ok) =>
        LET data == Decoded.data
            crc == crc16(data)
        IN  /\ crc = RefCrc(data)
            /\ crc \in 0..65535
            /\ crc16(<<>>) = 0
            /\ crc16(<<49, 50, 51, 52, 53, 54, 55, 56, 57>>) = 65256

\* the checksum of a frame with one bit flipped was computed and is not 0
C7_Witness ==
    /\ pc = "ready"
    /\ tamper = {"flip"}
    /\ Len(Decoded.data) = 20
    /\ crc16(Decoded.data) # 0

\* C8: parser.crc16, simulator.crc16 and the crc16 of test_all.py return the
\* same value for every byte sequence, and every packet built by
\* build_hk_packet passes the decoder's CRC check.
C8_ChecksumsAgree ==
    /\ (pc = "ready" /\ Decoded.ok) =>
          LET data == Decoded.data
              crc == crc16(data)
          IN  crc = sim_crc16(data) /\ crc = test_crc16(data)
    /\ (Parsed /\ origin.builder = "build_hk_packet" /\ tamper = {}) =>
          /\ result.kind # "CRCMismatch"
          /\ ~WrongCrc(Decoded.data)

\* a packet of build_hk_packet reached the decoder and was decoded
C8_Witness ==
    /\ Parsed
    /\ origin.builder = "build_hk_packet"
    /\ tamper = {}
    /\ result.exc = "none"
    /\ result.packet.raw_hex = BaseText

\* C9 as stated: each of the ten failure kinds, DeclaredLengthBelowMinimum
\* included, is the outcome of at least one input.  The inputs are the
\* texts the builders produce, the arbitrary short texts, and the hand-built
\* frames with their CRC overwritten.
BuiltTexts ==
    {build_hk_packet(f.satellite_id, f.battery_voltage, f.battery_temp,
                     f.msi_temperature, f.ssr_used, f.timestamp) : f \in HkInputs}
    \cup {raw_packet(10 + n + 2, t, SubSeq(RawPayload, 1, n)) :
            t \in RawTypes, n \in 0..MaxPayloadLen}
    \cup UNION {{forged_packet(sy, d, n) : d \in {n, n + 1, 11, 255}} :
            sy \in ForgedSyncs, n \in 5..(12 + MaxPayloadLen)}
InputUniverse ==
    BuiltTexts
    \cup TextsUpTo(MaxTextLen)
    \cup {SubSeq(raw_packet(20, t, SubSeq(RawPayload, 1, 8)), 1, 36) \o <<"0", "0", "0", "0">> :
            t \in RawTypes}
Producible(kind) == \E t \in InputUniverse : parse_packet(t) = ParseError(kind)

C9_EveryKindReachable ==
    \A kind \in FailureKinds : Producible(kind)

\* C9, amended: nine of the ten failure kinds are each the outcome of at
\* least one input; DeclaredLengthBelowMinimum is never reported, since a
\* frame whose length byte is below 12 and equal to its size is TooShort.
C9_NineKindsReachable ==
    /\ Parsed => result.kind # "DeclaredLengthBelowMinimum"
    /\ (pc = "ready" /\ Decoded.ok /\ Len(Decoded.data) >= 3
          /\ Decoded.data[3] < 12 /\ Decoded.data[3] = Len(Decoded.data))
          => parse_packet(hex_string) = ParseError("TooShort")
    /\ pc = "idle" =>
          \A kind \in FailureKinds \ {"DeclaredLengthBelowMinimum"} : Producible(kind)

\* a frame with the right sync, a length byte below 12 that equals its size
\* and the right CRC was decoded, and rejected as too short
C9_Witness ==
    /\ Parsed
    /\ origin.builder = "forged"
    /\ origin.sync = 6863
    /\ origin.declared = origin.total
    /\ origin.total < 12
    /\ tamper = {}
    /\ result = ParseError("TooShort")

\* C10: check_health returns one RED alert on msi_temperature iff
\* msi_temperature > 40, followed by one YELLOW alert on battery_voltage iff
\* battery_voltage < 12000: at most one alert per rule, RED before YELLOW.
ExpectedAlerts(packet) ==
    (IF packet.msi_temperature > 40 THEN << <<"RED", "msi_temperature">> >> ELSE <<>>)
    \o (IF packet.battery_voltage < 12000 THEN << <<"YELLOW", "battery_voltage">> >> ELSE <<>>)
C10_AlertSequence ==
    (pc = "checked") =>
        /\ [k \in 1..Len(alerts) |-> <<alerts[k].level, alerts[k].field>>]
              = ExpectedAlerts(result.packet)
        /\ \A k \in 1..Len(alerts) : alerts[k].value = result.packet[alerts[k].field]
        /\ result.packet.msi_temperature = 40 => \A k \in 1..Len(alerts) : alerts[k].level # "RED"
        /\ result.packet.msi_temperature = 41 => alerts[1].level = "RED"
        /\ result.packet.battery_voltage = 12000
              => \A k \in 1..Len(alerts) : alerts[k].level # "YELLOW"
        /\ result.packet.battery_voltage = 11999 => alerts[Len(alerts)].level = "YELLOW"

\* both rules fired at their first firing values: RED, then YELLOW
C10_Witness ==
    /\ pc = "checked"
    /\ result.packet.msi_temperature = 41
    /\ result.packet.battery_voltage = 11999
    /\ Len(alerts) = 2
    /\ alerts[1].level = "RED"
    /\ alerts[2].level = "YELLOW"

\* C11
\* Every alert check_health returns carries satellite_id, field and
\* packet_timestamp; satellite_id is the frame's, timestamp and
\* packet_timestamp are both the frame's timestamp; and the alerts of one
\* frame have pairwise distinct (satellite_id, field, packet_timestamp).
DedupKey(a) == <<a.satellite_id, a.field, a.packet_timestamp>>

C11_AlertsCarryDedupKey ==
    pc = "checked" =>
        /\ \A i \in DOMAIN alerts :
              /\ {"satellite_id", "field", "timestamp", "packet_timestamp"}
                     \subseteq DOMAIN alerts[i]
              /\ alerts[i].satellite_id = result.packet.satellite_id
              /\ alerts[i].timestamp = result.packet.timestamp
              /\ alerts[i].packet_timestamp = result.packet.timestamp
        /\ \A i, j \in DOMAIN alerts :
              i # j => DedupKey(alerts[i]) # DedupKey(alerts[j])

C11_Witness ==
    /\ pc = "checked"
    /\ Len(alerts) = 2
    /\ DedupKey(alerts[1]) = <<1, "msi_temperature", <<25939, 61696>>>>
    /\ DedupKey(alerts[2]) = <<1, "battery_voltage", <<25939, 61696>>>>

(***************************************************************************)
(* Properties of the ingestion service.                                    *)
(***************************************************************************)
\* the log entries of one thread, and the places of its recvfrom returns
ThreadLog(t) == SelectSeq(log, LAMBDA e : e.thread = t)
Receives(tl) == {k \in DOMAIN tl : tl[k].op = "recvfrom"}
\* the entries a thread logged between its k-th entry, a recvfrom return,
\* and its next recvfrom return
CallsAfter(tl, k) ==
    LET later == {j \in Receives(tl) : j > k}
        last == IF later = {} THEN Len(tl)
                ELSE (CHOOSE j \in later : \A i \in later : j <= i) - 1
    IN  SubSeq(tl, k + 1, last)
Ops(events) == [k \in DOMAIN events |-> events[k].op]
Count(op) == Cardinality({k \in DOMAIN log : log[k].op = op})
\* what a step added to the log
Added == SubSeq(log', Len(log) + 1, Len(log'))
\* a parse_packet entry for a text the decoder rejected
IsRejection(e) == e.op = "parse_packet" /\ e.packet = NoPacket

\* C12
\* A datagram the decoder rejects has no side effect: the step that
\* processes it makes no store_telemetry, store_alert or observer call and
\* leaves the thread at the loop test with the flag and the sockets as they
\* were.  A thread that received a malformed datagram and then a valid
\* housekeeping datagram has made exactly one store_telemetry call.
C12_RejectedStep ==
    \A t \in Threads :
        (thread_pc[t] = "process" /\ thread_pc'[t] # "process") =>
            /\ Len(Added) >= 1
            /\ Added[1].op = "parse_packet"
            /\ Added[1].raw_data = strip(decode(raw_data[t]))
            /\ IsRejection(Added[1]) =>
                  /\ Len(Added) = 1
                  /\ thread_pc'[t] = "while"
                  /\ UNCHANGED <<_running, _sock, sockets>>

C12_RejectedNoSideEffect ==
    /\ [][C12_RejectedStep]_vars
    /\ [](\A t \in Threads :
            LET tl == ThreadLog(t)
            IN  /\ \A k \in DOMAIN tl :
                      IsRejection(tl[k]) => (k = Len(tl) \/ tl[k + 1].op = "recvfrom")
                /\ ( /\ thread_pc[t] # "process"
                     /\ Len(tl) >= 3
                     /\ tl[1].op = "recvfrom" /\ tl[1].raw_data = MalformedDatagram
                     /\ tl[3].op = "recvfrom" /\ tl[3].raw_data = NominalDatagram )
                    => /\ IsRejection(tl[2])
                       /\ Ops(CallsAfter(tl, 3))[2] = "store_telemetry"
                       /\ Cardinality({k \in 1..(3 + Len(CallsAfter(tl, 3))) :
                                          tl[k].op = "store_telemetry"}) = 1)

C12_Witness ==
    /\ Len(log) >= 4
    /\ log[1].op = "recvfrom" /\ log[1].raw_data = MalformedDatagram
    /\ IsRejection(log[2])
    /\ log[3].op = "recvfrom" /\ log[3].raw_data = NominalDatagram
    /\ log[1].thread = log[3].thread
    /\ Count("store_telemetry") = 1
    /\ thread_pc[log[3].thread] = "recvfrom"
    /\ sockets[recv_on[log[3].thread]] = "bound"
    /\ _running

\* a thread that has been started and has not ended
Alive(t) == thread_pc[t] \notin {"unborn", "done"}
\* a thread that has left the while loop
LeftLoop(t) == thread_pc[t] \in {"cleanup", "done"} /\ bind_result[t] = "ok"
Called(op) == \E k \in DOMAIN calls : calls[k].op = op

\* C13
\* Once its socket is bound a listener thread leaves the receive loop only
\* after stop() has been called, and in every state where the running flag
\* is set and the thread of the last start() has bound its socket, a
\* listener thread is alive.
C13_ListenerAliveWhileRunning ==
    /\ \A t \in Threads : LeftLoop(t) => Called("stop")
    /\ (_running /\ _thread # 0 /\ bind_result[_thread] = "ok") =>
          \E t \in Threads : Alive(t)

\* the last call was stop(), and thread t is still blocked in the recvfrom
\* it had called before
LastCallStop == calls # <<>> /\ calls[Len(calls)].op = "stop"
StoppedWhileBlocked(t) == LastCallStop /\ thread_pc[t] = "recvfrom"

\* C14
\* If stop() is called while a listener is blocked in recvfrom and start()
\* is not called again, the listener leaves the loop and ends, and the
\* socket it was receiving on ends up closed; its pending recvfrom returns
\* no datagram, and after one timeout the loop test ends the loop.
C14_ExitStep ==
    \A t \in Threads :
        (LastCallStop /\ thread_pc[t] \in {"recvfrom", "while"}) =>
            /\ ~_running
            /\ thread_pc[t] = "recvfrom" =>
                  thread_pc'[t] \in {"recvfrom", "process", "while", "cleanup"}
            /\ thread_pc[t] = "while" => thread_pc'[t] \in {"while", "cleanup"}

Restarted ==
    /\ Ops(calls) = <<"start", "stop", "start">>
    /\ calls[1].created = 1
    /\ calls[3].created = 2
    /\ \A t \in Threads : bind_result[t] # "OSError"

\* C15
\* After start(), stop(), start() by one caller the socket of the second
\* listener is closed by nobody, and the second listener, once it has bound
\* its socket, stays in the receive loop, while no other listener receives
\* on its socket: one live listener holding an open, bound socket.
C15_RestartListens ==
    Restarted =>
        /\ closed_by[2] = {}
        /\ bind_result[2] = "ok" =>
              /\ thread_pc[2] \in {"while", "recvfrom", "process"}
              /\ sockets[2] = "bound"
        /\ thread_pc[1] = "recvfrom" => recv_on[1] # 2

\* a step in which the caller calls start()
StartStep == Len(calls') = Len(calls) + 1 /\ calls'[Len(calls')].op = "start"

\* C16
\* start() called while the running flag is set creates no thread and no
\* socket and leaves the flag, the thread handle and the socket handle as
\* they were.
C16_StartWhileRunningStep ==
    (StartStep /\ _running) =>
        /\ calls'[Len(calls')].created = 0
        /\ UNCHANGED <<_running, _thread, _sock, thread_pc, sockets, recv_on, bind_result,
                       closed_by, log>>

C16_StartWhileRunningIsNoOp == [][C16_StartWhileRunningStep]_vars

C16_Witness ==
    /\ Len(calls) = 2
    /\ calls[1] = Call("start", 1)
    /\ calls[2] = Call("start", 0)
    /\ _running
    /\ _thread = 1
    /\ Born = 1

\* C17
\* When the bind fails the thread clears the running flag and ends: it never
\* enters the receive loop, never calls recvfrom and processes no datagram;
\* and a start() that finds the flag cleared is no no-op: it sets the flag
\* and starts a new thread at line 86.
C17_BindFailureStep ==
    /\ \A t \in Threads :
          (bind_result[t] = "none" /\ bind_result'[t] = "OSError") =>
              /\ ~_running'
              /\ thread_pc'[t] = "done"
    /\ (StartStep /\ ~_running) =>
          LET created == calls'[Len(calls')].created
          IN  /\ created \in Threads
              /\ thread_pc[created] = "unborn"
              /\ thread_pc'[created] = "socket"
              /\ bind_result'[created] = "none"
              /\ _running'
              /\ _thread' = created

C17_BindFailureStops ==
    /\ [][C17_BindFailureStep]_vars
    /\ [](\A t \in Threads :
            bind_result[t] = "OSError" =>
                /\ thread_pc[t] = "done"
                /\ recv_on[t] = 0
                /\ ThreadLog(t) = <<>>)

C17_Witness ==
    /\ Ops(calls) = <<"start", "start">>
    /\ bind_result[1] = "OSError"
    /\ calls[2].created = 2
    /\ thread_pc[2] = "recvfrom"
    /\ bind_result[2] = "ok"

\* C18
\* What start() returns tells the caller whether the bind of the thread it
\* started failed: a start() whose thread failed to bind and a start() whose
\* thread bound its socket do not return the same.
C18_BindFailureSurfaced ==
    \A i, j \in DOMAIN calls :
        ( /\ calls[i].op = "start" /\ calls[i].created # 0
          /\ calls[j].op = "start" /\ calls[j].created # 0
          /\ bind_result[calls[i].created] = "OSError"
          /\ bind_result[calls[j].created] = "ok" )
        => calls[i].returned # calls[j].returned

\* the calls _process makes for a decoded packet, by name
ExpectedOps(packet) ==
    <<"parse_packet">>
    \o (IF packet.packet_type = "HOUSEKEEPING"
        THEN <<"store_telemetry", "check_health">>
             \o [k \in 1..Len(check_health(packet)) |-> "store_alert"]
        ELSE <<>>)
    \o (IF on_packet THEN <<"on_packet">> ELSE <<>>)

\* the receives of a thread whose datagram has been processed
Handled(t, tl) == {k \in Receives(tl) : k < Len(tl)}

\* C19
\* For every decoded housekeeping datagram the thread's entries up to its
\* next receive are: store_telemetry(frame) once, check_health(frame),
\* store_alert once per returned alert in the returned order, and, with an
\* observer set, one observer call with the frame and all the alerts.
C19_HousekeepingCallOrder ==
    \A t \in Threads :
        LET tl == ThreadLog(t)
        IN  \A k \in Handled(t, tl) :
               LET made == CallsAfter(tl, k)
                   packet == made[1].packet
               IN  (packet # NoPacket /\ packet.packet_type = "HOUSEKEEPING") =>
                      LET found == check_health(packet)
                      IN  /\ Ops(made) = ExpectedOps(packet)
                          /\ Len(made) = 3 + Len(found) + (IF on_packet THEN 1 ELSE 0)
                          /\ made[2].packet = packet
                          /\ made[3].packet = packet /\ made[3].alerts = found
                          /\ \A i \in 1..Len(found) : made[3 + i].alerts = <<found[i]>>
                          /\ on_packet =>
                                /\ made[Len(made)].packet = packet
                                /\ made[Len(made)].alerts = found

C19_Witness ==
    /\ on_packet
    /\ Len(log) = 7
    /\ log[1].raw_data = AlarmDatagram
    /\ Ops(log) = <<"recvfrom", "parse_packet", "store_telemetry", "check_health",
                     "store_alert", "store_alert", "on_packet">>
    /\ log[5].alerts[1].level = "RED"
    /\ log[6].alerts[1].level = "YELLOW"
    /\ Len(log[7].alerts) = 2

\* C20
\* For a decoded payload-data frame _process makes no store_telemetry, no
\* check_health and no store_alert call; the observer, if set, is called
\* once with the frame and an empty alert list.
C20_PayloadFrameNotStored ==
    \A t \in Threads :
        LET tl == ThreadLog(t)
        IN  \A k \in Handled(t, tl) :
               LET made == CallsAfter(tl, k)
                   packet == made[1].packet
               IN  (packet # NoPacket /\ packet.packet_type = "PAYLOAD_DATA") =>
                      /\ \A i \in DOMAIN made :
                            made[i].op \notin {"store_telemetry", "check_health", "store_alert"}
                      /\ Len(made) = 1 + (IF on_packet THEN 1 ELSE 0)
                      /\ on_packet =>
                            /\ made[2].op = "on_packet"
                            /\ made[2].packet = packet
                            /\ made[2].alerts = <<>>

C20_Witness ==
    /\ on_packet
    /\ Len(log) = 3
    /\ log[1].raw_data = PayloadDatagram
    /\ log[2].packet.packet_type = "PAYLOAD_DATA"
    /\ log[2].packet.payload_length = 3
    /\ log[3].op = "on_packet"
    /\ log[3].alerts = <<>>
    /\ Count("store_telemetry") = 0


\* the threads that hold a received datagram they have not yet processed
Processing == {t \in Threads : thread_pc[t] = "process"}
StoreCalls == {k \in DOMAIN log : log[k].op = "store_telemetry"}
\* the place in the log of the recvfrom return that delivered the datagram
\* the call at place k was made for
ReceivedAt(k) ==
    CHOOSE j \in 1..k :
        /\ log[j].op = "recvfrom" /\ log[j].thread = log[k].thread
        /\ \A i \in (j + 1)..k : ~(log[i].op = "recvfrom" /\ log[i].thread = log[k].thread)

\* C22
\* At most one datagram is being processed at a time, and the
\* store_telemetry calls are made in the order in which their datagrams
\* were received, after any start() and stop() calls.
C22_OneDatagramAtATime ==
    /\ Cardinality(Processing) <= 1
    /\ \A k1, k2 \in StoreCalls : k1 < k2 => ReceivedAt(k1) < ReceivedAt(k2)

\* a step taken by a listener thread: the caller's steps add to calls
ListenerStep == calls' = calls

\* C28
\* The running flag and the socket handle are written only by start() and
\* stop(): no step of a listener thread changes either one.
C28_ListenerStepReadsOnly == ListenerStep => UNCHANGED <<_running, _sock>>

C28_ListenerOnlyReads == [][C28_ListenerStepReadsOnly]_vars

\* C29
\* Each listener thread receives on and closes only the socket it created,
\* and once the flag is cleared and every listener thread has ended every
\* socket that was created is closed.
C29_OwnSocketOnly ==
    /\ \A t \in Threads : recv_on[t] \in {0, t}
    /\ \A s \in Threads : closed_by[s] \cap Threads \subseteq {s}
    /\ (~_running /\ \A t \in Threads : ~Alive(t)) =>
          \A s \in Threads : sockets[s] \in {"none", "closed"}

\* C30
\* After stop() has returned and before another start(), no recvfrom
\* returns a datagram, and at most one datagram, received before the
\* stop(), is still to be processed.
C30_NoReceiveStep ==
    LastCallStop =>
        \A t \in Threads : ~(thread_pc[t] = "recvfrom" /\ thread_pc'[t] = "process")

C30_NoReceiveAfterStop ==
    /\ [][C30_NoReceiveStep]_vars
    /\ [](LastCallStop => Cardinality(Processing) <= 1)


(***************************************************************************)
(* Properties of the decoder's input handling.                             *)
(***************************************************************************)
\* a frame built by hand with type code 0x10, as built
RawHousekeeping ==
    /\ Parsed
    /\ origin.builder = "raw"
    /\ origin.ptype = PACKET_TYPE_HK
    /\ tamper = {}

\* C25
\* A frame with type code 0x10 that passes the sync, length and CRC checks
\* fails with TruncatedPayload when its payload has fewer than 8 bytes;
\* with 8 or more it decodes, the four fields are the values at payload
\* offsets 0, 2, 3 and 4, and they are those of the frame with the payload
\* cut to 8 bytes.
C25_HousekeepingPayload ==
    RawHousekeeping =>
        LET n == origin.payload_length
            p == RawPayload
        IN  IF n < 8 THEN result = ParseError("TruncatedPayload")
            ELSE LET cut == parse_packet(raw_packet(20, PACKET_TYPE_HK, SubSeq(p, 1, 8)))
                 IN  /\ result.exc = "none"
                     /\ result.packet.packet_type = "HOUSEKEEPING"
                     /\ result.packet.battery_voltage = p[1] * 256 + p[2]
                     /\ result.packet.battery_temp = (IF p[3] >= 128 THEN p[3] - 256 ELSE p[3])
                     /\ result.packet.msi_temperature = p[4]
                     /\ result.packet.ssr_used = <<p[5] * 256 + p[6], p[7] * 256 + p[8]>>
                     /\ cut.exc = "none"
                     /\ \A f \in FieldNames : result.packet[f] = cut.packet[f]

C25_Witness ==
    /\ RawHousekeeping
    /\ origin.payload_length = 9
    /\ result.exc = "none"
    /\ result.packet.battery_temp = -17
    /\ result.packet.ssr_used = <<255, 4224>>

\* C26
\* The decode result of a frame's text written with spaces between the
\* byte pairs or with a leading 0x is that of the text itself, and a text
\* with 0x at any other place is not accepted as a frame.
C26_Normalisation ==
    (Parsed /\ origin.builder \in {"build_hk_packet", "raw"}) =>
        /\ tamper \in {{"spaced"}, {"0x first"}} => result = parse_packet(BaseText)
        /\ tamper \in {{"0x inside"}, {"0x last"}} => result.exc # "none"


(***************************************************************************)
(* Properties of the collaborators: the observer and the database.         *)
(***************************************************************************)
\* the calls of one kind that returned a given value, in the order made
Returned(op, value) == SelectSeq(log, LAMBDA e : e.op = op /\ e.returned = value)

\* C21
\* An observer that raises does not end the loop: the step that processes
\* a datagram always leaves the thread at the loop test with the flag and
\* the sockets as they were.  The store calls made for the frame are made
\* once and what they stored stays stored, and every decoded datagram,
\* also one that follows a failed observer call, gets the calls a datagram
\* gets when the observer returns.
C21_ProcessStep ==
    \A t \in Threads :
        (thread_pc[t] = "process" /\ thread_pc'[t] # "process") =>
            /\ thread_pc'[t] = "while"
            /\ UNCHANGED <<_running, _sock, sockets, closed_by>>

C21_ObserverFailureIsolated ==
    /\ [][C21_ProcessStep]_vars
    /\ [](/\ telemetry_docs =
              [k \in DOMAIN Returned("store_telemetry", "id") |->
                  Returned("store_telemetry", "id")[k].packet]
          /\ alert_docs =
              [k \in DOMAIN Returned("store_alert", "True") |->
                  Returned("store_alert", "True")[k].alerts[1]]
          /\ \A t \in Threads :
                LET tl == ThreadLog(t)
                IN  \A k \in Handled(t, tl) :
                       LET made == CallsAfter(tl, k)
                       IN  made[1].packet # NoPacket =>
                              Ops(made) = ExpectedOps(made[1].packet))

C21_Witness ==
    /\ Len(log) >= 10
    /\ log[1].raw_data = AlarmDatagram
    /\ Ops(SubSeq(log, 1, 7)) = <<"recvfrom", "parse_packet", "store_telemetry", "check_health",
                                  "store_alert", "store_alert", "on_packet">>
    /\ log[3].returned = "id"
    /\ log[7].returned = "raised"
    /\ log[8].op = "recvfrom"
    /\ log[10].op = "store_telemetry"
    /\ log[10].returned = "id"
    /\ Len(telemetry_docs) = 2
    /\ thread_pc[1] = "while"

\* C23
\* A store call that reports failure does not cut the processing of a
\* housekeeping frame short: when store_telemetry returned None or a
\* store_alert returned False, check_health is still called, every alert
\* is still handed to store_alert in order, and the observer, if set, still
\* gets the frame with all the alerts.
C23_StoreFailureDoesNotAbort ==
    \A t \in Threads :
        LET tl == ThreadLog(t)
        IN  \A k \in Handled(t, tl) :
               LET made == CallsAfter(tl, k)
                   packet == made[1].packet
               IN  ( /\ packet # NoPacket
                     /\ packet.packet_type = "HOUSEKEEPING"
                     /\ \E i \in DOMAIN made : made[i].returned \in {"None", "False"}
                                                /\ made[i].op \in {"store_telemetry", "store_alert"} )
                   => LET found == check_health(packet)
                      IN  /\ Len(made) = 3 + Len(found) + (IF on_packet THEN 1 ELSE 0)
                          /\ made[2].op = "store_telemetry"
                          /\ made[3].op = "check_health"
                          /\ \A i \in 1..Len(found) :
                                /\ made[3 + i].op = "store_alert"
                                /\ made[3 + i].alerts = <<found[i]>>
                          /\ on_packet =>
                                /\ made[Len(made)].op = "on_packet"
                                /\ made[Len(made)].packet = packet
                                /\ made[Len(made)].alerts = found

C23_Witness ==
    /\ on_packet
    /\ Len(log) = 14
    /\ log[8].raw_data = AlarmDatagram
    /\ log[10].op = "store_telemetry" /\ log[10].returned = "id"
    /\ log[12].op = "store_alert" /\ log[12].returned = "False"
    /\ log[13].op = "store_alert" /\ log[13].returned = "False"
    /\ log[14].op = "on_packet" /\ Len(log[14].alerts) = 2
    /\ Len(alert_docs) = 2

\* the store_alert calls made so far, in order
StoreAlertCalls == SelectSeq(log, LAMBDA e : e.op = "store_alert")

\* C24
\* No two stored alerts share (satellite_id, field, packet_timestamp);
\* store_alert returns True exactly when no stored alert had the triple
\* of its argument before the call; and a call that returns False stores
\* nothing.
C24_StoredAlertsUnique ==
    /\ \A i, j \in DOMAIN alert_docs :
          i # j => DedupKey(alert_docs[i]) # DedupKey(alert_docs[j])
    /\ \A k \in DOMAIN StoreAlertCalls :
          (StoreAlertCalls[k].returned = "True") <=>
              ~\E j \in 1..(k - 1) :
                  /\ StoreAlertCalls[j].returned = "True"
                  /\ DedupKey(StoreAlertCalls[j].alerts[1]) = DedupKey(StoreAlertCalls[k].alerts[1])
    /\ alert_docs =
          [k \in DOMAIN Returned("store_alert", "True") |->
              Returned("store_alert", "True")[k].alerts[1]]

\* C27
\* With the server answering, every alert handed to store_alert is in the
\* alerts collection afterwards, and store_alert returns False only for an
\* alert of a packet whose alert had been stored before.
C27_ProcessStepStoresAlerts ==
    reachable =>
        \A k \in DOMAIN Added :
            Added[k].op = "store_alert" =>
                /\ \E i \in DOMAIN alert_docs' : alert_docs'[i] = Added[k].alerts[1]
                /\ Added[k].returned = "False" =>
                      \E j \in DOMAIN log :
                          /\ log[j].op = "store_alert"
                          /\ log[j].returned = "True"
                          /\ log[j].packet = Added[k].packet

C27_EveryPacketItsAlert == [][C27_ProcessStepStoresAlerts]_vars

=============================================================================
